---------------------------- MODULE Spec2Model ----------------------------
(***************************************************************************)
(* A model of the Fincat demo backend:                                     *)
(*   - src/backend/__init__.py : the in-memory stock store, its CRUD       *)
(*     endpoints and the rule-based chat command interpreter;              *)
(*   - src/scripts/earnings_data.py : get_earnings_calendar.               *)
(*                                                                         *)
(* Text is modelled as a sequence of one-character strings, so that        *)
(* str.strip, str.split, str.lower, str.upper, " ".join and float() are    *)
(* computed character by character, as Python computes them.               *)
(***************************************************************************)
EXTENDS Integers, Sequences, FiniteSets, TLC

VARIABLES
    STOCKS,     \* _STOCKS: the dict, as the sequence of its items in insertion order
    last,       \* the call of the backend that has run and whose response is in flight
    prevRemove, \* key named by the preceding chat call when it was a "remove SYM", else <<>>
    ecall,      \* the running call of get_earnings_calendar (its locals)
    clock       \* the wall-clock calendar date, as dt.date.today() would return it

vars == <<STOCKS, last, prevRemove, ecall, clock>>

---------------------------------------------------------------------------
(* Bounds of the model.                                                    *)

\* most NAME tokens of a chat "add" message
MaxNameLen == 2
\* most rows the source returns, in all, to the queries of one call
MaxRows == 3
\* largest num passed to get_earnings_calendar (the smallest is -1)
MaxNum == 3

---------------------------------------------------------------------------
(* Python text primitives.                                                 *)

\* an Optional value: None, or Some(x)
None == <<>>
Some(x) == <<x>>

LowerLetters == <<"a","b","c","d","e","f","g","h","i","j","k","l","m",
                  "n","o","p","q","r","s","t","u","v","w","x","y","z">>
UpperLetters == <<"A","B","C","D","E","F","G","H","I","J","K","L","M",
                  "N","O","P","Q","R","S","T","U","V","W","X","Y","Z">>

\* str.lower / str.upper on one character
LowerChar(c) ==
    IF \E i \in 1..26 : UpperLetters[i] = c
    THEN LowerLetters[CHOOSE i \in 1..26 : UpperLetters[i] = c]
    ELSE c
UpperChar(c) ==
    IF \E i \in 1..26 : LowerLetters[i] = c
    THEN UpperLetters[CHOOSE i \in 1..26 : LowerLetters[i] = c]
    ELSE c

lower(s) == [i \in 1..Len(s) |-> LowerChar(s[i])]
upper(s) == [i \in 1..Len(s) |-> UpperChar(s[i])]

\* the whitespace str.strip() and str.split() remove
IsSpace(c) == c \in {" ", "\t", "\n"}

RECURSIVE lstrip(_)
lstrip(s) == IF s # <<>> /\ IsSpace(Head(s)) THEN lstrip(Tail(s)) ELSE s
RECURSIVE rstrip(_)
rstrip(s) ==
    IF s # <<>> /\ IsSpace(s[Len(s)]) THEN rstrip(SubSeq(s, 1, Len(s) - 1)) ELSE s
strip(s) == rstrip(lstrip(s))

\* str.split(): the maximal runs of non-whitespace characters, in order
RECURSIVE SplitFrom(_, _, _)
SplitFrom(s, cur, acc) ==
    IF s = <<>>
    THEN IF cur = <<>> THEN acc ELSE Append(acc, cur)
    ELSE IF IsSpace(Head(s))
         THEN SplitFrom(Tail(s), <<>>, IF cur = <<>> THEN acc ELSE Append(acc, cur))
         ELSE SplitFrom(Tail(s), Append(cur, Head(s)), acc)
split(s) == SplitFrom(s, <<>>, <<>>)

\* sep.join(parts)
RECURSIVE join(_, _)
join(sep, parts) ==
    IF parts = <<>> THEN <<>>
    ELSE IF Len(parts) = 1 THEN parts[1]
    ELSE parts[1] \o sep \o join(sep, Tail(parts))

---------------------------------------------------------------------------
(* float(str).  A finite value is kept exactly, as sign, mantissa and      *)
(* decimal exponent with the mantissa's trailing zeros removed; the tokens *)
(* of the model have few digits, so two tokens denote the same double      *)
(* exactly when they denote the same decimal.                              *)

Digits == <<"0","1","2","3","4","5","6","7","8","9">>
IsDigit(c) == \E i \in 1..10 : Digits[i] = c
DigitVal(c) == (CHOOSE i \in 1..10 : Digits[i] = c) - 1

\* a digit group: digits, with single underscores allowed between digits
DigitGroupOK(s) ==
    /\ s # <<>>
    /\ IsDigit(s[1]) /\ IsDigit(s[Len(s)])
    /\ \A i \in 1..Len(s) : IsDigit(s[i]) \/ s[i] = "_"
    /\ \A i \in 1..(Len(s) - 1) : ~(s[i] = "_" /\ s[i + 1] = "_")

IsDigitOrNot(c) == IsDigit(c)
RECURSIVE ToNat(_)
ToNat(ds) == IF ds = <<>> THEN 0 ELSE 10 * ToNat(SubSeq(ds, 1, Len(ds) - 1)) + DigitVal(ds[Len(ds)])
GroupVal(s) == ToNat(SelectSeq(s, IsDigitOrNot))
GroupLen(s) == Len(SelectSeq(s, IsDigitOrNot))

\* first position of a character of cs in s, 0 when there is none
IndexOf(s, cs) ==
    IF \E i \in 1..Len(s) : s[i] \in cs
    THEN CHOOSE i \in 1..Len(s) : s[i] \in cs /\ \A j \in 1..(i - 1) : s[j] \notin cs
    ELSE 0

RECURSIVE Pow10(_)
Pow10(n) == IF n = 0 THEN 1 ELSE 10 * Pow10(n - 1)

RECURSIVE Normalize(_, _, _)
Normalize(neg, mant, exp) ==
    IF mant = 0 THEN [kind |-> "fin", neg |-> neg, mant |-> 0, exp |-> 0]
    ELSE IF mant % 10 = 0 THEN Normalize(neg, mant \div 10, exp + 1)
    ELSE [kind |-> "fin", neg |-> neg, mant |-> mant, exp |-> exp]

ValueError == [ok |-> FALSE]
Parsed(v) == [ok |-> TRUE, val |-> v]

\* the value of mantissa digits ip.fp and exponent digits xd, all well-formed
DecimalValue(neg, ip, fp, xneg, xd) ==
    Normalize(neg,
              GroupVal(ip) * Pow10(GroupLen(fp)) + GroupVal(fp),
              (IF xd = <<>> THEN 0 ELSE IF xneg THEN 0 - GroupVal(xd) ELSE GroupVal(xd))
                  - GroupLen(fp))

\* the mantissa digits [. [digits]] | . digits, split at its dot (0: no dot)
ParseMantissa(neg, m, dot, hasExp, x) ==
    LET ip == IF dot = 0 THEN m ELSE SubSeq(m, 1, dot - 1)
        fp == IF dot = 0 THEN <<>> ELSE SubSeq(m, dot + 1, Len(m))
        xd == IF x # <<>> /\ x[1] \in {"+", "-"} THEN Tail(x) ELSE x
    IN  IF /\ ip = <<>> \/ DigitGroupOK(ip)
           /\ fp = <<>> \/ DigitGroupOK(fp)
           /\ ~(ip = <<>> /\ fp = <<>>)
           /\ hasExp => DigitGroupOK(xd)
        THEN Parsed(DecimalValue(neg, ip, fp, x # <<>> /\ x[1] = "-", xd))
        ELSE ValueError

\* the unsigned decimal part, split at its exponent mark e (0: no exponent)
SplitExponent(neg, s, e) ==
    IF e = 0 THEN ParseMantissa(neg, s, IndexOf(s, {"."}), FALSE, <<>>)
    ELSE ParseMantissa(neg, SubSeq(s, 1, e - 1), IndexOf(SubSeq(s, 1, e - 1), {"."}),
                       TRUE, SubSeq(s, e + 1, Len(s)))

ParseDecimal(neg, s) == SplitExponent(neg, s, IndexOf(s, {"e", "E"}))

\* float(s) for a token s (no surrounding whitespace): the value, or ValueError
FloatBody(neg, body, low) ==
    IF low = <<"n","a","n">> THEN Parsed([kind |-> "nan"])
    ELSE IF low = <<"i","n","f">> \/ low = <<"i","n","f","i","n","i","t","y">>
         THEN Parsed([kind |-> "inf", neg |-> neg])
    ELSE ParseDecimal(neg, body)
Unsigned(s) == IF s # <<>> /\ s[1] \in {"+", "-"} THEN Tail(s) ELSE s
float(s) == FloatBody(s # <<>> /\ s[1] = "-", Unsigned(s), lower(Unsigned(s)))

Num(n) == Normalize(FALSE, n, 0)

---------------------------------------------------------------------------
(* The store: dict[str, Stock].  A Python dict enumerates its items in     *)
(* insertion order; assigning to a present key keeps the key's position.   *)

Stock(symbol, name, price, notes) ==
    [symbol |-> symbol, name |-> name, price |-> price, notes |-> notes]

HasKey(d, k) == \E i \in 1..Len(d) : d[i].key = k
KeyIndex(d, k) == CHOOSE i \in 1..Len(d) : d[i].key = k
GetItem(d, k) == d[KeyIndex(d, k)].value
\* d[k] = v
SetItem(d, k, v) ==
    IF HasKey(d, k)
    THEN [d EXCEPT ![KeyIndex(d, k)] = [key |-> k, value |-> v]]
    ELSE Append(d, [key |-> k, value |-> v])
\* del d[k]
DelItem(d, k) ==
    LET i == KeyIndex(d, k)
    IN  SubSeq(d, 1, i - 1) \o SubSeq(d, i + 1, Len(d))
\* list(d.values())
values(d) == [i \in 1..Len(d) |-> d[i].value]
keys(d) == [i \in 1..Len(d) |-> d[i].key]

\* what a handler hands back: the new store, and either the returned value or
\* the exception that left the handler
Returned(d, value) == [store |-> d, raised |-> None, value |-> value]
Raised(d, exc) == [store |-> d, raised |-> Some(exc), value |-> None]
HTTPException(code, detail) == [exc |-> "HTTPException", status_code |-> code, detail |-> detail]

---------------------------------------------------------------------------
(* The CRUD endpoints.                                                     *)

list_stocks_on(d) == Returned(d, values(d))

\* POST /stocks
add_stock_on(d, stock) ==
    LET key == upper(stock.symbol)
    IN  IF HasKey(d, key)
        THEN Raised(d, HTTPException(400, "Stock already exists"))
        ELSE Returned(SetItem(d, key, stock), stock)

\* PUT /stocks/{symbol}
update_stock_on(d, symbol, stock) ==
    LET key == upper(symbol)
    IN  IF ~HasKey(d, key)
        THEN Raised(d, HTTPException(404, "Stock not found"))
        ELSE LET updated == [stock EXCEPT !.symbol = key]
             IN  Returned(SetItem(d, key, updated), updated)

\* DELETE /stocks/{symbol}
delete_stock_on(d, symbol) ==
    LET key == upper(symbol)
    IN  IF ~HasKey(d, key)
        THEN Raised(d, HTTPException(404, "Stock not found"))
        ELSE Returned(DelItem(d, key), [status |-> "ok"])

---------------------------------------------------------------------------
(* POST /chat.  A reply is the f-string's template with the values put in  *)
(* it; the snapshot is list(_STOCKS.values()) at the return.               *)

ChatResponse(reply, d) == Returned(d, [reply |-> reply, stocks |-> values(d)])

Reply(template, args) == [template |-> template, args |-> args]
ListReply(d) == Reply("You currently have {len(_STOCKS)} stock(s).", <<Len(d)>>)
UsageReply == Reply("Please type a command like 'add AAPL Apple 195.3' or 'list'.", <<>>)
AddParseReply == Reply("Could not parse price. Use something like 'add AAPL Apple 195.3'", <<>>)
AddedReply(symbol, name, price) == Reply("Added {symbol} ({name}) at {price}.", <<symbol, name, price>>)
NotInListReply(symbol) == Reply("{symbol} is not in your list.", <<symbol>>)
RemovedReply(symbol) == Reply("Removed {symbol}.", <<symbol>>)
UpdateParseReply == Reply("Could not parse price. Use something like 'update AAPL 200.0'", <<>>)
UpdatedReply(symbol, price) == Reply("Updated {symbol} to {price}.", <<symbol, price>>)
HelpReply == Reply("I support: 'list', 'add SYMBOL NAME PRICE', 'remove SYMBOL', and 'update SYMBOL PRICE'.", <<>>)

WordList == <<"l","i","s","t">>
WordAdd == <<"a","d","d">>
WordRemove == <<"r","e","m","o","v","e">>
WordUpdate == <<"u","p","d","a","t","e">>

\* " ".join(parts[2:-1])
AddName(parts) == join(<<" ">>, SubSeq(parts, 3, Len(parts) - 1))

\* chat_add as it would be with the uniqueness check of add_stock
chat_add_unique(d, parts) ==
    IF ~float(parts[Len(parts)]).ok THEN ChatResponse(AddParseReply, d)
    ELSE IF HasKey(d, upper(parts[2])) THEN ChatResponse(HelpReply, d)
    ELSE ChatResponse(AddedReply(upper(parts[2]), AddName(parts), float(parts[Len(parts)]).val),
                      SetItem(d, upper(parts[2]),
                              Stock(upper(parts[2]), AddName(parts), float(parts[Len(parts)]).val, None)))

\* the "add" branch, lines 93-103
chat_add(d, parts) ==
    LET symbol == upper(parts[2])
        price  == float(parts[Len(parts)])
    IN  IF ~price.ok
        THEN ChatResponse(AddParseReply, d)
        ELSE LET name  == AddName(parts)
                 stock == Stock(symbol, name, price.val, None)
                 d2    == SetItem(d, symbol, stock)
             IN  ChatResponse(AddedReply(symbol, name, price.val), d2)

\* chat_remove as it would be with the symbol looked up as typed
chat_remove_raw(d, parts) ==
    IF ~HasKey(d, parts[2])
    THEN ChatResponse(NotInListReply(parts[2]), d)
    ELSE ChatResponse(RemovedReply(parts[2]), DelItem(d, parts[2]))

\* the "remove" branch, lines 105-110
chat_remove(d, parts) ==
    LET symbol == upper(parts[2])
    IN  IF ~HasKey(d, symbol)
        THEN ChatResponse(NotInListReply(symbol), d)
        ELSE ChatResponse(RemovedReply(symbol), DelItem(d, symbol))

\* chat_update as it would be with the record built anew instead of copied
chat_update_rebuild(d, parts) ==
    IF ~HasKey(d, upper(parts[2])) THEN ChatResponse(NotInListReply(upper(parts[2])), d)
    ELSE IF ~float(parts[3]).ok THEN ChatResponse(UpdateParseReply, d)
    ELSE ChatResponse(UpdatedReply(upper(parts[2]), float(parts[3]).val),
                      SetItem(d, upper(parts[2]),
                              Stock(upper(parts[2]), GetItem(d, upper(parts[2])).name,
                                    float(parts[3]).val, None)))

\* the "update" branch, lines 112-124
chat_update(d, parts) ==
    LET symbol == upper(parts[2])
    IN  IF ~HasKey(d, symbol)
        THEN ChatResponse(NotInListReply(symbol), d)
        ELSE LET price == float(parts[3])
             IN  IF ~price.ok
                 THEN ChatResponse(UpdateParseReply, d)
                 ELSE LET existing == GetItem(d, symbol)
                          updated  == [existing EXCEPT !.price = price.val]
                      IN  ChatResponse(UpdatedReply(symbol, price.val), SetItem(d, symbol, updated))

\* chat_dispatch as it would be with "remove" accepting two tokens or more
chat_dispatch_loose(d, parts) ==
    IF lower(parts[1]) = WordAdd /\ Len(parts) >= 4 THEN chat_add(d, parts)
    ELSE IF lower(parts[1]) = WordRemove /\ Len(parts) >= 2 THEN chat_remove(d, parts)
    ELSE IF lower(parts[1]) = WordUpdate /\ Len(parts) = 3 THEN chat_update(d, parts)
    ELSE ChatResponse(HelpReply, d)

\* the dispatch on the command word and the token count
chat_dispatch(d, parts) ==
    LET cmd == lower(parts[1])
    IN  IF cmd = WordAdd /\ Len(parts) >= 4 THEN chat_add(d, parts)
        ELSE IF cmd = WordRemove /\ Len(parts) = 2 THEN chat_remove(d, parts)
        ELSE IF cmd = WordUpdate /\ Len(parts) = 3 THEN chat_update(d, parts)
        ELSE ChatResponse(HelpReply, d)

chat_on(d, message) ==
    LET text  == strip(message)
        parts == split(text)
    IN  IF lower(text) = WordList THEN ChatResponse(ListReply(d), d)
        ELSE IF parts = <<>> THEN ChatResponse(UsageReply, d)
        ELSE chat_dispatch(d, parts)

---------------------------------------------------------------------------
(* The requests the model sends.                                           *)

SeqsUpTo(S, n) == UNION {[1..k -> S] : k \in 0..n}

SymToks == {<<"a","b">>, <<"A","B">>, <<"c">>}
\* the symbols of the chat "add" and "update" messages
ChatSyms == {<<"a","b">>, <<"A","B">>}
NameToks == {<<"x">>, <<"Y","z">>}
GoodPriceToks == {<<"1">>, <<"2",".","5">>, <<"2",".","5","0">>, <<"2","5","e","-","1">>,
                  <<"+","1","_","0","E","-","1">>}
BadPriceToks == {<<"x">>, <<"1",".","2",".","3">>, <<"1","_">>}
PriceToks == GoodPriceToks \cup BadPriceToks
AddPriceToks == {<<"1">>, <<"2",".","5","0">>, <<"x">>}

AddWords == {WordAdd, <<"A","d","D">>}
RemoveWords == {WordRemove, <<"R","E","M","O","V","E">>}
UpdateWords == {WordUpdate, <<"U","p","d","a","t","e">>}

AddTokens ==
    {<<c, s>> \o n \o <<p>> :
        c \in AddWords, s \in ChatSyms, n \in SeqsUpTo(NameToks, MaxNameLen), p \in AddPriceToks}
        \cup {<<WordAdd, <<"c">>, <<"x">>, <<"1">>>>}
RemoveTokens ==
    {<<c, s>> : c \in RemoveWords, s \in SymToks}
        \cup {<<WordRemove>>} \cup {<<WordRemove, s, s>> : s \in SymToks}
UpdateTokens ==
    {<<c, s, p>> : c \in UpdateWords, s \in ChatSyms, p \in PriceToks}
        \cup {<<WordUpdate, <<"c">>, <<"x">>>>, <<WordUpdate, <<"c">>, <<"1">>>>}
        \cup {<<WordUpdate, s>> : s \in SymToks}
        \cup {<<WordUpdate, s, <<"1">>, <<"1">>>> : s \in SymToks}
OtherTokens ==
    {<<WordList>>, <<<<"L","i","S","T">>>>, <<WordList, <<"x">>>>,
     <<<<"b","u","y">>>>, <<<<"b","u","y">>, <<"c">>, <<"x">>, <<"1">>>>, <<WordAdd>>}
TokenSeqs == AddTokens \cup RemoveTokens \cup UpdateTokens \cup OtherTokens

\* how the tokens are laid out in the message: leading, separating, trailing
\* whitespace.  A command word in lower case is laid out plainly, any other
\* with irregular whitespace.
Plain == [lead |-> <<>>, sep |-> <<" ">>, trail |-> <<>>]
Ragged == [lead |-> <<" ">>, sep |-> <<"\t", " ">>, trail |-> <<"\n">>]
LayoutOf(tokens) == IF tokens[1] = lower(tokens[1]) THEN Plain ELSE Ragged
Render(tokens, lay) == lay.lead \o join(lay.sep, tokens) \o lay.trail
Messages == {Render(t, LayoutOf(t)) : t \in TokenSeqs} \cup {<<>>, <<" ", "\n">>}

StockInputs ==
    {Stock(s, <<"x">>, Num(1), o) : s \in SymToks, o \in {None, Some(<<"n">>)}}

---------------------------------------------------------------------------
(* The backend as a state machine: a call runs its whole handler (FastAPI  *)
(* runs an async handler with no await in it without interleaving), and    *)
(* its response is in flight until Return.                                 *)

Idle == [op |-> "idle"]
Call(op, args, pre, out) ==
    [op |-> op, args |-> args, pre |-> pre, raised |-> out.raised, value |-> out.value]

\* the key a chat message names when it is a two-token "remove SYM", else <<>>
RemoveKeyOf(message) ==
    LET parts == split(strip(message))
    IN  IF Len(parts) = 2 /\ lower(parts[1]) = WordRemove THEN upper(parts[2]) ELSE <<>>

BackendInit ==
    /\ STOCKS = <<>>
    /\ last = Idle
    /\ prevRemove = <<>>

list_stocks ==
    /\ last = Idle
    /\ LET out == list_stocks_on(STOCKS)
       IN  /\ STOCKS' = out.store
           /\ last' = Call("list_stocks", <<>>, STOCKS, out)
    /\ UNCHANGED <<prevRemove, ecall, clock>>

add_stock ==
    /\ last = Idle
    /\ \E stock \in StockInputs :
         LET out == add_stock_on(STOCKS, stock)
         IN  /\ STOCKS' = out.store
             /\ last' = Call("add_stock", <<stock>>, STOCKS, out)
    /\ UNCHANGED <<prevRemove, ecall, clock>>

update_stock ==
    /\ last = Idle
    /\ \E symbol \in SymToks, stock \in StockInputs :
         LET out == update_stock_on(STOCKS, symbol, stock)
         IN  /\ STOCKS' = out.store
             /\ last' = Call("update_stock", <<symbol, stock>>, STOCKS, out)
    /\ UNCHANGED <<prevRemove, ecall, clock>>

delete_stock ==
    /\ last = Idle
    /\ \E symbol \in SymToks :
         LET out == delete_stock_on(STOCKS, symbol)
         IN  /\ STOCKS' = out.store
             /\ last' = Call("delete_stock", <<symbol>>, STOCKS, out)
    /\ UNCHANGED <<prevRemove, ecall, clock>>

chat ==
    /\ last = Idle
    /\ \E message \in Messages :
         LET out == chat_on(STOCKS, message)
         IN  /\ STOCKS' = out.store
             /\ last' = Call("chat", <<message>>, STOCKS, out)
    /\ UNCHANGED <<prevRemove, ecall, clock>>

\* the response reaches the caller
Return ==
    /\ last # Idle
    /\ prevRemove' = IF last.op = "chat" THEN RemoveKeyOf(last.args[1]) ELSE <<>>
    /\ last' = Idle
    /\ UNCHANGED <<STOCKS, ecall, clock>>

---------------------------------------------------------------------------
(* Calendar dates (datetime.date) are <<year, month, day>>.                *)

IsLeap(y) == (y % 4 = 0 /\ y % 100 # 0) \/ y % 400 = 0
DaysInMonth(y, m) ==
    IF m = 2 THEN (IF IsLeap(y) THEN 29 ELSE 28)
    ELSE IF m \in {4, 6, 9, 11} THEN 30 ELSE 31

\* d1 < d2 and d1 >= d2 on dates
DateLT(d1, d2) ==
    \/ d1[1] < d2[1]
    \/ d1[1] = d2[1] /\ d1[2] < d2[2]
    \/ d1[1] = d2[1] /\ d1[2] = d2[2] /\ d1[3] < d2[3]
DateGE(d1, d2) == ~DateLT(d1, d2)

\* the day after d
NextDay(d) ==
    IF d[3] < DaysInMonth(d[1], d[2]) THEN <<d[1], d[2], d[3] + 1>>
    ELSE IF d[2] < 12 THEN <<d[1], d[2] + 1, 1>>
    ELSE <<d[1] + 1, 1, 1>>

\* n written with w digits, zero-padded
RECURSIVE ZeroPad(_, _)
ZeroPad(n, w) == IF w = 0 THEN <<>> ELSE Append(ZeroPad(n \div 10, w - 1), Digits[(n % 10) + 1])

\* date.isoformat(): YYYY-MM-DD
isoformat(d) == ZeroPad(d[1], 4) \o <<"-">> \o ZeroPad(d[2], 2) \o <<"-">> \o ZeroPad(d[3], 2)

\* date(y, m, d): ValueError unless the fields name a day
MakeDate(y, m, d) ==
    IF y >= 1 /\ m \in 1..12 /\ d >= 1 /\ d <= DaysInMonth(y, m)
    THEN Parsed(<<y, m, d>>)
    ELSE ValueError

\* date.fromisoformat(s) for the extended format YYYY-MM-DD; ValueError otherwise
fromisoformat(s) ==
    IF /\ Len(s) = 10
       /\ \A i \in {1, 2, 3, 4, 6, 7, 9, 10} : IsDigit(s[i])
       /\ s[5] = "-" /\ s[8] = "-"
    THEN MakeDate(ToNat(SubSeq(s, 1, 4)), ToNat(SubSeq(s, 6, 7)), ToNat(SubSeq(s, 9, 10)))
    ELSE ValueError

---------------------------------------------------------------------------
(* What yfinance hands back.  A row is its index value and its fields.     *)
(* An index value is a pandas Timestamp (it has .date()) or anything else, *)
(* of which the code reads str(idx)[:10].  A field value is None, a float, *)
(* a string, or an integer too large for a double.                         *)

Timestamp(date, hour) == [kind |-> "Timestamp", date |-> date, hour |-> hour]
StrIndex(text) == [kind |-> "str", text |-> text]

NoneValue == [kind |-> "None"]
FloatValue(v) == [kind |-> "float", val |-> v]
StrValue(text) == [kind |-> "str", text |-> text]
HugeInt == [kind |-> "int", huge |-> TRUE]

\* float(x) on a field value: the value, "skip" for the TypeError or ValueError
\* the extraction loops catch, "raise" for any other exception (OverflowError)
Converted(r) == IF r.ok THEN [how |-> "ok", val |-> r.val] ELSE [how |-> "skip"]
ToFloat(x) ==
    IF x.kind = "float" THEN [how |-> "ok", val |-> x.val]
    ELSE IF x.kind = "str" THEN Converted(float(strip(x.text)))
    ELSE IF x.kind = "int" THEN [how |-> "raise"]
    ELSE [how |-> "skip"]

EstimateKeys == <<"EPS Estimate", "epsestimate", "Estimate", "estimate">>
ActualKeys == <<"Reported EPS", "reportedEPS", "epsactual", "actual">>
SurpriseKeys == <<"Surprise(%)", "surprise", "surprise_percent">>

\* one extraction loop (lines 123-129, 141-147, 149-155, 157-163): the first key,
\* from position i on, that is in the row, is not None and converts
RECURSIVE ExtractFrom(_, _, _)
RECURSIVE ExtractKey(_, _, _, _)
ExtractKey(c, fields, keylist, i) ==
    IF c.how = "ok" THEN [raised |-> FALSE, val |-> Some(c.val)]
    ELSE IF c.how = "raise" THEN [raised |-> TRUE, val |-> None]
    ELSE ExtractFrom(fields, keylist, i + 1)
ExtractFrom(fields, keylist, i) ==
    IF i > Len(keylist) THEN [raised |-> FALSE, val |-> None]
    ELSE IF keylist[i] \in DOMAIN fields /\ fields[keylist[i]] # NoneValue
         THEN ExtractKey(ToFloat(fields[keylist[i]]), fields, keylist, i)
         ELSE ExtractFrom(fields, keylist, i + 1)
Extract(fields, keylist) == ExtractFrom(fields, keylist, 1)

\* lines 94-103: the (date, row) pairs of the rows whose index gives a date
IndexDate(idx) ==
    IF idx.kind = "Timestamp" THEN Parsed(idx.date)
    ELSE fromisoformat(SubSeq(idx.text, 1, IF Len(idx.text) < 10 THEN Len(idx.text) ELSE 10))
RECURSIVE CollectRows(_)
CollectRow(p, fields, rest) ==
    IF p.ok THEN <<[date |-> p.val, row |-> fields]>> \o rest ELSE rest
CollectRows(df) ==
    IF df = <<>> THEN <<>>
    ELSE CollectRow(IndexDate(df[1].idx), df[1].fields, CollectRows(Tail(df)))

\* list.sort / sorted by date: stable, ascending, or descending with reverse=True
RECURSIVE InsertByDate(_, _, _)
InsertByDate(sorted, x, reverse) ==
    IF sorted = <<>> THEN <<x>>
    ELSE LET before == IF reverse THEN DateLT(sorted[1].date, x.date)
                                  ELSE DateLT(x.date, sorted[1].date)
         IN  IF before THEN <<x>> \o sorted
             ELSE <<sorted[1]>> \o InsertByDate(Tail(sorted), x, reverse)
RECURSIVE SortByDate(_, _)
SortByDate(rows, reverse) ==
    IF rows = <<>> THEN <<>>
    ELSE InsertByDate(SortByDate(SubSeq(rows, 1, Len(rows) - 1), reverse), rows[Len(rows)], reverse)

\* the future test as it would be with today counted as past
IsFutureStrict(pair, today) == DateLT(today, pair.date)
\* d >= today, line 113 (line 114 takes the others)
IsFuture(pair, today) == DateGE(pair.date, today)
RECURSIVE FilterRows(_, _, _)
FilterRows(rows, today, future) ==
    IF rows = <<>> THEN <<>>
    ELSE IF IsFuture(rows[1], today) = future
         THEN <<rows[1]>> \o FilterRows(Tail(rows), today, future)
         ELSE FilterRows(Tail(rows), today, future)

Max(a, b) == IF a >= b THEN a ELSE b
\* limit=max(num + 4, 8)
QueryLimit(num) == Max(num + 4, 8)
\* max_past = max(num - 1, 0)
MaxPast(num) == Max(num - 1, 0)

Entry(sym, date, estimate, past) ==
    [symbol |-> sym, next_earnings_date |-> date, next_earnings_estimate |-> estimate,
     past_earnings |-> past]
EmptyEntry(sym) == Entry(sym, None, None, <<>>)
PastEvent(date, est, act, sur) ==
    [date |-> isoformat(date), eps_estimate |-> est, eps_actual |-> act, surprise_percent |-> sur]

\* lines 136-172: the loop over past_rows_sorted[:max_past]; an exception leaves
\* the events appended so far in the entry
RECURSIVE PastLoop(_, _)
PastStep(rows, events, est, act, sur) ==
    IF est.raised \/ act.raised \/ sur.raised
    THEN [raised |-> TRUE, events |-> events]
    ELSE PastLoop(Tail(rows), Append(events, PastEvent(rows[1].date, est.val, act.val, sur.val)))
PastLoop(rows, events) ==
    IF rows = <<>> THEN [raised |-> FALSE, events |-> events]
    ELSE PastStep(rows, events, Extract(rows[1].row, EstimateKeys),
                  Extract(rows[1].row, ActualKeys), Extract(rows[1].row, SurpriseKeys))

\* past_rows_sorted[:max_past]
Take(rows, n) == SubSeq(rows, 1, IF Len(rows) < n THEN Len(rows) ELSE n)

\* lines 132-172
WithPast(entry, loop) ==
    [entry |-> [entry EXCEPT !.past_earnings = loop.events], raised |-> loop.raised]
PastPart(entry, past_rows, num) ==
    IF MaxPast(num) > 0 /\ past_rows # <<>>
    THEN WithPast(entry, PastLoop(Take(SortByDate(past_rows, TRUE), MaxPast(num)), <<>>))
    ELSE [entry |-> entry, raised |-> FALSE]

\* lines 116-130: the next event is the first future row; its date is in the
\* entry before its estimate is extracted
NextEstimate(dated, est, past_rows, num) ==
    IF est.raised THEN [entry |-> dated, raised |-> TRUE]
    ELSE PastPart([dated EXCEPT !.next_earnings_estimate = est.val], past_rows, num)
NextPart(entry, future_rows, past_rows, num) ==
    IF future_rows # <<>>
    THEN NextEstimate([entry EXCEPT !.next_earnings_date = Some(isoformat(future_rows[1].date))],
                      Extract(future_rows[1].row, EstimateKeys), past_rows, num)
    ELSE PastPart(entry, past_rows, num)

\* lines 105-114
Partition(entry, sorted, num, today) ==
    NextPart(entry, FilterRows(sorted, today, TRUE), FilterRows(sorted, today, FALSE), num)
ProcessRows(entry, rows, num, today) ==
    IF rows = <<>> THEN [entry |-> entry, raised |-> FALSE]
    ELSE Partition(entry, SortByDate(rows, FALSE), num, today)

\* lines 92-172, for a DataFrame that is not empty
ProcessFrame(entry, df, num, today) == ProcessRows(entry, CollectRows(df), num, today)

\* What the two yfinance calls do for one symbol:
\*   get  : "frame" (get_earnings_dates returns the DataFrame df, maybe empty),
\*          "none" (it returns None), "raise" (it raises);
\*   cal  : after a raise, ticker.calendar is "none" (None or no such attribute),
\*          "dict" (yfinance's calendar is a dict: it has no .empty, no .iterrows)
\*          or "raise" (the property raises).
Outcome(get, df, cal) == [get |-> get, df |-> df, cal |-> cal]

\* one iteration of the loop of lines 73-177: the entry appended to results, and
\* whether the outer except logged an exception
ProcessSymbol(sym, out, num, today) ==
    IF out.get = "raise"
    THEN [entry |-> EmptyEntry(sym), raised |-> out.cal # "none"]
    ELSE IF out.get = "none" \/ out.df = <<>> THEN [entry |-> EmptyEntry(sym), raised |-> FALSE]
    ELSE ProcessFrame(EmptyEntry(sym), out.df, num, today)

\* lines 59-69
SymbolList(symbols) == IF symbols.kind = "str" THEN <<Some(symbols.text)>> ELSE symbols.items
RECURSIVE Normalized(_)
Normalized(symbol_list) ==
    IF symbol_list = <<>> THEN <<>>
    ELSE LET sym == strip(IF symbol_list[1] = None THEN <<>> ELSE symbol_list[1][1])
         IN  IF sym = <<>> THEN Normalized(Tail(symbol_list))
             ELSE <<upper(sym)>> \o Normalized(Tail(symbol_list))

\* lines 53-54
EffectiveNum(num) == IF num <= 0 THEN 1 ELSE num

---------------------------------------------------------------------------
(* The inputs and the source data of the earnings model.                   *)

FirstDay == <<2025, 12, 31>>
LastDay == NextDay(FirstDay)

Older == <<2025, 12, 29>>
Past == <<2025, 12, 30>>
TextFirstDay == <<"2","0","2","5","-","1","2","-","3","1"," ","0","0",":","0","0">>
TextFuture == <<"2","0","2","6","-","0","2","-","2","8">>
TextBad == <<"2","0","2","6","-","0","2","-","3","0">>

\* a row in the spelling yfinance uses, every field a float
RowOlder ==
    [idx |-> Timestamp(Older, 16),
     fields |-> [k \in {"EPS Estimate", "Reported EPS", "Surprise(%)"} |->
                   IF k = "EPS Estimate" THEN FloatValue(Num(1))
                   ELSE IF k = "Reported EPS" THEN FloatValue(Num(2))
                   ELSE FloatValue(Num(3))]]
\* a row whose surprise is an integer float() cannot convert (OverflowError)
RowPast ==
    [idx |-> Timestamp(Past, 9),
     fields |-> [k \in {"estimate", "actual", "Surprise(%)", "surprise"} |->
                   IF k = "estimate" THEN FloatValue(Num(2))
                   ELSE IF k = "actual" THEN FloatValue(Num(3))
                   ELSE IF k = "Surprise(%)" THEN HugeInt
                   ELSE FloatValue(Num(5))]]
\* a row indexed by a string, with None and unconvertible text before the
\* estimate that converts, and two spellings of the actual
RowFirstDay ==
    [idx |-> StrIndex(TextFirstDay),
     fields |-> [k \in {"EPS Estimate", "epsestimate", "Estimate", "reportedEPS", "epsactual"} |->
                   IF k = "EPS Estimate" THEN NoneValue
                   ELSE IF k = "epsestimate" THEN StrValue(<<"n","/","a">>)
                   ELSE IF k = "Estimate" THEN FloatValue(Num(4))
                   ELSE IF k = "reportedEPS" THEN FloatValue(Num(5))
                   ELSE FloatValue(Num(6))]]
\* a row with both "EPS Estimate" and "epsestimate", and a surprise given as text
RowLastDay ==
    [idx |-> Timestamp(LastDay, 0),
     fields |-> [k \in {"EPS Estimate", "epsestimate", "surprise"} |->
                   IF k = "EPS Estimate" THEN FloatValue(Num(8))
                   ELSE IF k = "epsestimate" THEN FloatValue(Num(7))
                   ELSE StrValue(<<" ","2",".","5">>)]]
\* a row whose first estimate is an integer float() cannot convert
RowFuture ==
    [idx |-> StrIndex(TextFuture),
     fields |-> [k \in {"EPS Estimate", "epsestimate"} |->
                   IF k = "EPS Estimate" THEN HugeInt ELSE FloatValue(Num(1))]]
\* a row whose index is no date (February 30th)
RowBad ==
    [idx |-> StrIndex(TextBad),
     fields |-> [k \in {"EPS Estimate"} |-> FloatValue(Num(9))]]

RowPool == {RowOlder, RowPast, RowFirstDay, RowLastDay, RowFuture, RowBad}

Frames(n) == SeqsUpTo(RowPool, n)
Outcomes(n) ==
    {Outcome("frame", df, "none") : df \in Frames(n)}
        \cup {Outcome("none", <<>>, "none")}
        \cup {Outcome("raise", <<>>, c) : c \in {"none", "dict", "raise"}}

Aapl == <<"a","a","p","l">>
SymbolInputs ==
    { [kind |-> "str", text |-> <<" ","m","s","f","t">>],
      [kind |-> "str", text |-> <<" ">>],
      [kind |-> "list", items |-> <<>>],
      [kind |-> "list", items |-> <<Some(Aapl), Some(<<"\t">>), Some(<<"M","s","f","t","\n">>)>>],
      [kind |-> "list", items |-> <<None, Some(Aapl), Some(<<"A","A","P","L">>)>>] }

---------------------------------------------------------------------------
(* get_earnings_calendar as a state machine: the call fixes num, today and *)
(* the normalized symbols; each step of the loop queries the source for    *)
(* the next symbol and appends its entry; midnight may pass in between.    *)

get_earnings_calendar ==
    /\ ecall = Idle
    /\ \E symbols \in SymbolInputs, num \in (0 - 1)..MaxNum :
         ecall' = [op |-> "running", symbols |-> symbols, num_arg |-> num,
                   num |-> EffectiveNum(num), today |-> clock,
                   normalized_symbols |-> Normalized(SymbolList(symbols)),
                   results |-> <<>>, outcomes |-> <<>>, logged |-> <<>>, rows_read |-> 0]
    /\ UNCHANGED <<STOCKS, last, prevRemove, clock>>

\* the "today" the loop compares row dates with: the date taken at line 56,
\* not the date now
TodayOf(call, now) == call.today

\* the append as it would be were a logged failure to skip it
AppendedUnlessRaised(call, out, r) ==
    [call EXCEPT !.results = IF r.raised THEN @ ELSE Append(@, r.entry),
                 !.outcomes = Append(@, out),
                 !.logged = Append(@, r.raised),
                 !.rows_read = @ + Len(out.df)]

\* results.append(entry), with the source's answer and the log kept beside it
Appended(call, out, r) ==
    [call EXCEPT !.results = Append(@, r.entry),
                 !.outcomes = Append(@, out),
                 !.logged = Append(@, r.raised),
                 !.rows_read = @ + Len(out.df)]

\* one iteration of "for sym in normalized_symbols"
process_symbol ==
    /\ ecall.op = "running"
    /\ Len(ecall.outcomes) < Len(ecall.normalized_symbols)
    /\ \E out \in Outcomes(MaxRows - ecall.rows_read) :
         /\ Len(out.df) <= QueryLimit(ecall.num)
         /\ ecall' = Appended(ecall, out,
                              ProcessSymbol(ecall.normalized_symbols[Len(ecall.outcomes) + 1],
                                            out, ecall.num, TodayOf(ecall, clock)))
    /\ UNCHANGED <<STOCKS, last, prevRemove, clock>>

\* "return results"
return_results ==
    /\ ecall.op = "running"
    /\ Len(ecall.outcomes) = Len(ecall.normalized_symbols)
    /\ ecall' = Idle
    /\ UNCHANGED <<STOCKS, last, prevRemove, clock>>

\* midnight passes
Tick ==
    /\ clock # LastDay
    /\ clock' = NextDay(clock)
    /\ UNCHANGED <<STOCKS, last, prevRemove, ecall>>

---------------------------------------------------------------------------
Init ==
    /\ BackendInit
    /\ ecall = Idle
    /\ clock = FirstDay

Next == list_stocks \/ add_stock \/ update_stock \/ delete_stock \/ chat \/ Return

Spec == Init /\ [][Next]_vars

NextEarnings == get_earnings_calendar \/ process_symbol \/ return_results \/ Tick

SpecEarnings == Init /\ [][NextEarnings]_vars

---------------------------------------------------------------------------
(* Properties of the backend, checked under Spec.  In a state where a      *)
(* call's response is in flight, last.pre is the store as the call found   *)
(* it and STOCKS the store as the call left it.                            *)

\* the tokens of a chat message
Tokens(message) == split(strip(message))

IsAdd(t) == Len(t) >= 4 /\ lower(t[1]) = WordAdd
IsRemove(t) == Len(t) = 2 /\ lower(t[1]) = WordRemove
IsUpdate(t) == Len(t) = 3 /\ lower(t[1]) = WordUpdate
SuccessfulAdd(t) == IsAdd(t) /\ float(t[Len(t)]).ok
SuccessfulRemove(t, pre) == IsRemove(t) /\ HasKey(pre, upper(t[2]))
SuccessfulUpdate(t, pre) == IsUpdate(t) /\ HasKey(pre, upper(t[2])) /\ float(t[3]).ok

KeySet(d) == {d[i].key : i \in 1..Len(d)}
\* every key but key is in both stores, with the same record
OthersUnchanged(pre, post, key) ==
    /\ KeySet(pre) \ {key} = KeySet(post) \ {key}
    /\ \A k \in KeySet(pre) \ {key} : GetItem(pre, k) = GetItem(post, k)

\* C1: after a chat "add SYM NAME... PRICE" (four tokens or more, PRICE a
\* number), whatever the store held, the store maps SYM upper-cased to a record
\* with that symbol, the NAME tokens joined by single spaces and that price,
\* and every other key is as it was.
C1_AddUpserts ==
    (last.op = "chat" /\ SuccessfulAdd(Tokens(last.args[1]))) =>
        LET t   == Tokens(last.args[1])
            key == upper(t[2])
        IN  /\ HasKey(STOCKS, key)
            /\ GetItem(STOCKS, key).symbol = key
            /\ GetItem(STOCKS, key).name = join(<<" ">>, SubSeq(t, 3, Len(t) - 1))
            /\ GetItem(STOCKS, key).price = float(t[Len(t)]).val
            /\ OthersUnchanged(last.pre, STOCKS, key)

\* an add with a two-token name over a record of another spelling, name, price
\* and note, next to another key
C1_Witness ==
    /\ last.op = "chat"
    /\ SuccessfulAdd(Tokens(last.args[1]))
    /\ Len(Tokens(last.args[1])) = 5
    /\ HasKey(last.pre, upper(Tokens(last.args[1])[2]))
    /\ GetItem(last.pre, upper(Tokens(last.args[1])[2])).notes # None
    /\ GetItem(last.pre, upper(Tokens(last.args[1])[2])).symbol # upper(Tokens(last.args[1])[2])
    /\ GetItem(last.pre, upper(Tokens(last.args[1])[2])).price # GetItem(STOCKS, upper(Tokens(last.args[1])[2])).price
    /\ Len(last.pre) = 2

\* C2: every entry of the store has an upper-case key and a record whose
\* symbol is that key.
C2_SymbolIsKey ==
    \A i \in 1..Len(STOCKS) :
        /\ STOCKS[i].key = upper(STOCKS[i].key)
        /\ STOCKS[i].value.symbol = STOCKS[i].key

\* C3: a successful chat "update SYM PRICE" changes the price of SYM's record
\* and nothing else: its symbol, name and notes, the other records, the keys
\* and their order are as they were.
C3_UpdateChangesOnlyPrice ==
    (last.op = "chat" /\ SuccessfulUpdate(Tokens(last.args[1]), last.pre)) =>
        LET t   == Tokens(last.args[1])
            key == upper(t[2])
        IN  /\ keys(STOCKS) = keys(last.pre)
            /\ GetItem(STOCKS, key).symbol = GetItem(last.pre, key).symbol
            /\ GetItem(STOCKS, key).name = GetItem(last.pre, key).name
            /\ GetItem(STOCKS, key).notes = GetItem(last.pre, key).notes
            /\ GetItem(STOCKS, key).price = float(t[3]).val
            /\ OthersUnchanged(last.pre, STOCKS, key)

\* an update that changes the price of the first of two records, one with a note
C3_Witness ==
    /\ last.op = "chat"
    /\ SuccessfulUpdate(Tokens(last.args[1]), last.pre)
    /\ Len(last.pre) = 2
    /\ last.pre[1].key = upper(Tokens(last.args[1])[2])
    /\ last.pre[1].value.notes # None
    /\ last.pre[1].value.price # STOCKS[1].value.price

\* C4: a chat message that is not a successful add, remove or update returns
\* normally, leaves the store as it was and returns the store as its snapshot.
C4_NoMutationOtherwise ==
    (/\ last.op = "chat"
     /\ ~SuccessfulAdd(Tokens(last.args[1]))
     /\ ~SuccessfulRemove(Tokens(last.args[1]), last.pre)
     /\ ~SuccessfulUpdate(Tokens(last.args[1]), last.pre)) =>
        /\ last.raised = None
        /\ STOCKS = last.pre
        /\ last.value.stocks = values(last.pre)

\* a "remove" with one token too many that names a stored symbol
C4_Witness ==
    /\ last.op = "chat"
    /\ Len(Tokens(last.args[1])) = 3
    /\ lower(Tokens(last.args[1])[1]) = WordRemove
    /\ HasKey(last.pre, upper(Tokens(last.args[1])[2]))
    /\ last.value.reply = HelpReply
    /\ Len(last.pre) = 2

\* the second of two consecutive "remove SYM": SYM is absent after either, and
\* the second says so and changes nothing
C5_RemoveTwice ==
    (last.op = "chat" /\ IsRemove(Tokens(last.args[1]))) =>
        LET key == upper(Tokens(last.args[1])[2])
        IN  /\ ~HasKey(STOCKS, key)
            /\ prevRemove = key =>
                 /\ last.value.reply = NotInListReply(key)
                 /\ STOCKS = last.pre

\* a key comes into the store only by an add of it (chat "add" or POST /stocks)
C5_AbsentUntilAdd ==
    \A k \in {upper(s) : s \in SymToks} :
        (~HasKey(STOCKS, k) /\ HasKey(STOCKS', k)) =>
            \/ last'.op = "add_stock" /\ upper(last'.args[1].symbol) = k
            \/ /\ last'.op = "chat"
               /\ IsAdd(Tokens(last'.args[1]))
               /\ upper(Tokens(last'.args[1])[2]) = k

\* C5: two consecutive chat "remove SYM" end with SYM absent, the second
\* replying "<SYM> is not in your list." without changing the store; and a
\* symbol that is absent stays absent until an add of it.
C5_RemoveIsIdempotent == []C5_RemoveTwice /\ [][C5_AbsentUntilAdd]_vars

\* a second "remove" of a symbol, typed in lower case, with a record left
C5_Witness ==
    /\ last.op = "chat"
    /\ IsRemove(Tokens(last.args[1]))
    /\ prevRemove = upper(Tokens(last.args[1])[2])
    /\ Tokens(last.args[1])[2] # prevRemove
    /\ Len(STOCKS) = 1

---------------------------------------------------------------------------
(* Properties of get_earnings_calendar, checked under SpecEarnings.        *)
(* results[i] is the entry of the i-th normalized symbol, outcomes[i] what *)
(* the source answered for it, logged[i] whether its processing ended in   *)
(* the outer except.                                                       *)

Running == ecall.op = "running"
Returning == Running /\ Len(ecall.outcomes) = Len(ecall.normalized_symbols)

\* the input symbols, trimmed, without the empty ones, upper-cased
RawSymbols(symbols) ==
    IF symbols.kind = "str" THEN <<symbols.text>>
    ELSE [i \in 1..Len(symbols.items) |->
            IF symbols.items[i] = None THEN <<>> ELSE symbols.items[i][1]]
NonEmpty(x) == x # <<>>
ExpectedSymbols(symbols) ==
    LET raw     == RawSymbols(symbols)
        trimmed == [i \in 1..Len(raw) |-> strip(raw[i])]
        kept    == SelectSeq(trimmed, NonEmpty)
    IN  [i \in 1..Len(kept) |-> upper(kept[i])]

\* C6: the call returns one entry per input symbol that is not empty once
\* trimmed, in input order, duplicates kept, each with the symbol trimmed and
\* upper-cased, whatever the source answers for each symbol.
C6_OneEntryPerSymbol ==
    Running =>
        LET expected == ExpectedSymbols(ecall.symbols)
        IN  /\ Len(ecall.results) = Len(ecall.outcomes)
            /\ Len(ecall.results) <= Len(expected)
            /\ \A i \in 1..Len(ecall.results) : ecall.results[i].symbol = expected[i]
            /\ Returning => Len(ecall.results) = Len(expected)

\* a returning call on a list with None and a duplicate, whose first symbol failed
C6_Witness ==
    /\ Returning
    /\ ecall.symbols.kind = "list"
    /\ Len(ecall.symbols.items) = 3
    /\ Len(ecall.results) = 2
    /\ ecall.results[1].symbol = ecall.results[2].symbol
    /\ ecall.logged[1]
    /\ ~ecall.logged[2]
    /\ ecall.results[2].next_earnings_date # None

\* C7: a symbol whose query or processing raised has the all-empty entry.
C7_FailureGivesEmptyEntry ==
    Running =>
        \A i \in 1..Len(ecall.results) :
            (ecall.logged[i] \/ ecall.outcomes[i].get = "raise") =>
                ecall.results[i] = EmptyEntry(ecall.results[i].symbol)

\* the dates the rows of df give
RowDates(df) ==
    LET parsed == [j \in 1..Len(df) |-> IndexDate(df[j].idx)]
    IN  [j \in {j \in 1..Len(df) : parsed[j].ok} |-> parsed[j].val]
FutureDates(df, today) ==
    LET dates == RowDates(df)
    IN  {dates[j] : j \in {j \in DOMAIN dates : ~DateLT(dates[j], today)}}
Earliest(S) == CHOOSE d \in S : \A e \in S : ~DateLT(e, d)
HasRows(i) == ecall.outcomes[i].get = "frame" /\ ecall.outcomes[i].df # <<>>

\* C8: for a symbol whose query returned rows, next_earnings_date is the
\* earliest row date that is today or later, None when there is none, in
\* whatever order the rows came; rows without a date count for nothing; today
\* is the date the call took at its start.
C8_NextIsEarliestFuture ==
    Running =>
        \A i \in 1..Len(ecall.results) :
            HasRows(i) =>
                LET future == FutureDates(ecall.outcomes[i].df, ecall.today)
                IN  ecall.results[i].next_earnings_date =
                        IF future = {} THEN None ELSE Some(isoformat(Earliest(future)))

\* the next date is today's, from the last of three rows that came latest
\* first with a dateless row between, after midnight has passed
C8_Witness ==
    /\ Running
    /\ clock # ecall.today
    /\ \E i \in 1..Len(ecall.results) :
         /\ HasRows(i)
         /\ ecall.outcomes[i].df = <<RowFuture, RowBad, RowFirstDay>>
         /\ ecall.results[i].next_earnings_date = Some(isoformat(ecall.today))

Min(a, b) == IF a <= b THEN a ELSE b
EventDate(e) == fromisoformat(e.date).val
\* the dates of the rows dated before today, by row number
PastDates(df, today) ==
    LET dates == RowDates(df)
    IN  [j \in {j \in DOMAIN dates : DateLT(dates[j], today)} |-> dates[j]]
\* how many of the n most recent of the past dates pd are the date v
ExpectedCount(pd, n, v) ==
    LET same  == Cardinality({j \in DOMAIN pd : pd[j] = v})
        newer == Cardinality({j \in DOMAIN pd : DateLT(v, pd[j])})
    IN  Max(0, Min(same, n - newer))
PastAsClaimed(entry, df, today, num_arg) ==
    LET n    == Max(num_arg, 1) - 1
        past == [k \in 1..Len(entry.past_earnings) |-> EventDate(entry.past_earnings[k])]
        pd   == PastDates(df, today)
    IN  /\ Len(past) = Min(n, Cardinality(DOMAIN pd))
        /\ \A k \in 1..Len(past) : DateLT(past[k], today)
        /\ \A k \in 1..(Len(past) - 1) : ~DateLT(past[k], past[k + 1])
        /\ \A j \in DOMAIN pd :
             Cardinality({k \in 1..Len(past) : past[k] = pd[j]}) = ExpectedCount(pd, n, pd[j])

\* C9: past_earnings holds min(max(num, 1) - 1, rows dated before today)
\* events, the most recent rows dated before today, latest first.
C9_PastEvents ==
    Running =>
        \A i \in 1..Len(ecall.results) :
            HasRows(i) =>
                PastAsClaimed(ecall.results[i], ecall.outcomes[i].df, ecall.today, ecall.num_arg)

\* what C9 says, of the symbols whose processing raised nothing
C9_PastEventsUnlessRaised ==
    Running =>
        \A i \in 1..Len(ecall.results) :
            (HasRows(i) /\ ~ecall.logged[i]) =>
                PastAsClaimed(ecall.results[i], ecall.outcomes[i].df, ecall.today, ecall.num_arg)

\* the value of the first key of keylist that is in the row, not None and
\* convertible by float()
Qualifying(fields, keylist) ==
    {i \in 1..Len(keylist) :
        /\ keylist[i] \in DOMAIN fields
        /\ fields[keylist[i]] # NoneValue
        /\ ToFloat(fields[keylist[i]]).how = "ok"}
FirstQualifying(fields, keylist) ==
    IF Qualifying(fields, keylist) = {} THEN None
    ELSE Some(ToFloat(fields[keylist[
             CHOOSE i \in Qualifying(fields, keylist) :
                 \A j \in Qualifying(fields, keylist) : i <= j]]).val)
\* the fields of the row of df dated as the text says (the rows of a frame of
\* the model that have a date have it alone)
FieldsDated(df, text) ==
    df[CHOOSE j \in DOMAIN RowDates(df) : isoformat(RowDates(df)[j]) = text].fields
FieldsAsClaimed(entry, df) ==
    /\ entry.next_earnings_date # None =>
         entry.next_earnings_estimate
             = FirstQualifying(FieldsDated(df, entry.next_earnings_date[1]), EstimateKeys)
    /\ \A k \in 1..Len(entry.past_earnings) :
         LET e == entry.past_earnings[k]
             f == FieldsDated(df, e.date)
         IN  /\ e.eps_estimate = FirstQualifying(f, EstimateKeys)
             /\ e.eps_actual = FirstQualifying(f, ActualKeys)
             /\ e.surprise_percent = FirstQualifying(f, SurpriseKeys)

\* C10: each of the next event's estimate and a past event's eps_estimate,
\* eps_actual and surprise_percent is the value of the first of its field
\* names, in the listed order, that is in the row, not None and convertible,
\* None when there is none, each found on its own.
C10_FirstCandidateWins ==
    Running =>
        \A i \in 1..Len(ecall.results) :
            HasRows(i) => FieldsAsClaimed(ecall.results[i], ecall.outcomes[i].df)

\* what C10 says, of the symbols whose processing raised nothing
C10_FirstCandidateWinsUnlessRaised ==
    Running =>
        \A i \in 1..Len(ecall.results) :
            (HasRows(i) /\ ~ecall.logged[i]) =>
                FieldsAsClaimed(ecall.results[i], ecall.outcomes[i].df)

===========================================================================
